---- MODULE Spec2Model ----
(***************************************************************************)
(* AU-GURU: the keyword classifier of lib/smart-knowledge-base (the        *)
(* stateless chat route) and the session registry of the conversational    *)
(* chat route with its AUGeminiClient conversation objects.                *)
(*                                                                         *)
(* Strings that the code inspects character by character (the query, the   *)
(* keywords) are sequences of one-character strings.  Strings the code     *)
(* only stores and compares (message texts, session ids) are TLA+ strings. *)
(***************************************************************************)
EXTENDS Integers, Sequences, FiniteSets, TLC

VARIABLES
  query,                \* the message handed to getContextualKnowledge
  classified,           \* the array classifyQuery returned for it
  fragments,            \* how many fragments make up query
  now,                  \* Date.now(), in milliseconds
  apiKeyConfigured,     \* process.env.GEMINI_API_KEY is set
  conversationSessions, \* Map<string, AUGeminiClient>: session id -> object
  sessionTimestamps,    \* Map<string, number>: session id -> last activity
  conversationHistory,  \* per AUGeminiClient object, in creation order: its array
  inflight,             \* generateResponse calls awaiting the model
  requests,             \* how many POST requests reached generateResponse
  ticks,                \* how many times the clock advanced
  scanned,              \* cleanupOldSessions ran in the last step
  response,             \* the response the last finished handler returned
  knowledgeBase,        \* KNOWLEDGE_CATEGORIES[category].data, per category
  promptCategories,     \* the category list handed to generateContextPrompt
  prompt,               \* the prompt generateContextPrompt returned for it
  scores                \* what getQueryScores returned for query, if called

vars == << query, classified, fragments, now, apiKeyConfigured, conversationSessions,
           sessionTimestamps, conversationHistory, inflight,
           requests, ticks, scanned, response, knowledgeBase,
           promptCategories, prompt, scores >>

promptVars == << knowledgeBase, promptCategories, prompt >>

queryVars == << query, classified, fragments >>

classifierVars == << queryVars, promptVars, scores >>

sessionVars == << now, apiKeyConfigured, conversationSessions,
                  sessionTimestamps, conversationHistory,
                  inflight, requests, ticks, scanned, response >>

Range(s) == { s[i] : i \in DOMAIN s }

(***************************************************************************)
(* The query classifier (lib/smart-knowledge-base).                        *)
(***************************************************************************)

Categories == << "contacts", "faculties", "history", "tuitions" >>

\* contact, phone, address, location, campus, where, find, reach
\*   call, visit, email, website
contactsKeywords ==
  << <<"c","o","n","t","a","c","t">>, <<"p","h","o","n","e">>,
     <<"a","d","d","r","e","s","s">>, <<"l","o","c","a","t","i","o","n">>,
     <<"c","a","m","p","u","s">>, <<"w","h","e","r","e">>, <<"f","i","n","d">>,
     <<"r","e","a","c","h">>, <<"c","a","l","l">>, <<"v","i","s","i","t">>,
     <<"e","m","a","i","l">>, <<"w","e","b","s","i","t","e">> >>

\* program, course, study, major, faculty, school, degree, bachelor
\*   master, graduate, undergraduate, engineering, business, arts, science, technology
\*   communication, architecture, design, nursing, law, medicine, biotechnology, music
facultiesKeywords ==
  << <<"p","r","o","g","r","a","m">>, <<"c","o","u","r","s","e">>,
     <<"s","t","u","d","y">>, <<"m","a","j","o","r">>, <<"f","a","c","u","l","t","y">>,
     <<"s","c","h","o","o","l">>, <<"d","e","g","r","e","e">>,
     <<"b","a","c","h","e","l","o","r">>, <<"m","a","s","t","e","r">>,
     <<"g","r","a","d","u","a","t","e">>,
     <<"u","n","d","e","r","g","r","a","d","u","a","t","e">>,
     <<"e","n","g","i","n","e","e","r","i","n","g">>,
     <<"b","u","s","i","n","e","s","s">>, <<"a","r","t","s">>,
     <<"s","c","i","e","n","c","e">>, <<"t","e","c","h","n","o","l","o","g","y">>,
     <<"c","o","m","m","u","n","i","c","a","t","i","o","n">>,
     <<"a","r","c","h","i","t","e","c","t","u","r","e">>, <<"d","e","s","i","g","n">>,
     <<"n","u","r","s","i","n","g">>, <<"l","a","w">>,
     <<"m","e","d","i","c","i","n","e">>,
     <<"b","i","o","t","e","c","h","n","o","l","o","g","y">>, <<"m","u","s","i","c">> >>

\* history, founded, established, background, about, origin, when, started
\*   old, tradition, heritage, gabriel, brothers, college
historyKeywords ==
  << <<"h","i","s","t","o","r","y">>, <<"f","o","u","n","d","e","d">>,
     <<"e","s","t","a","b","l","i","s","h","e","d">>,
     <<"b","a","c","k","g","r","o","u","n","d">>, <<"a","b","o","u","t">>,
     <<"o","r","i","g","i","n">>, <<"w","h","e","n">>, <<"s","t","a","r","t","e","d">>,
     <<"o","l","d">>, <<"t","r","a","d","i","t","i","o","n">>,
     <<"h","e","r","i","t","a","g","e">>, <<"g","a","b","r","i","e","l">>,
     <<"b","r","o","t","h","e","r","s">>, <<"c","o","l","l","e","g","e">> >>

\* tuition, fee, cost, price, expensive, cheap, pay, payment
\*   money, scholarship, financial, afford, budget, matriculation, insurance
tuitionsKeywords ==
  << <<"t","u","i","t","i","o","n">>, <<"f","e","e">>, <<"c","o","s","t">>,
     <<"p","r","i","c","e">>, <<"e","x","p","e","n","s","i","v","e">>,
     <<"c","h","e","a","p">>, <<"p","a","y">>, <<"p","a","y","m","e","n","t">>,
     <<"m","o","n","e","y">>, <<"s","c","h","o","l","a","r","s","h","i","p">>,
     <<"f","i","n","a","n","c","i","a","l">>, <<"a","f","f","o","r","d">>,
     <<"b","u","d","g","e","t">>,
     <<"m","a","t","r","i","c","u","l","a","t","i","o","n">>,
     <<"i","n","s","u","r","a","n","c","e">> >>


keywords(category) ==
  CASE category = "contacts"  -> contactsKeywords
    [] category = "faculties" -> facultiesKeywords
    [] category = "history"   -> historyKeywords
    [] category = "tuitions"  -> tuitionsKeywords

UpperCase == << "A", "B", "C", "D", "E", "F", "G", "H", "I", "J", "K", "L", "M", "N", "O", "P",
             "Q", "R", "S", "T", "U", "V", "W", "X", "Y", "Z" >>

LowerCase == << "a", "b", "c", "d", "e", "f", "g", "h", "i", "j", "k", "l", "m", "n", "o", "p",
             "q", "r", "s", "t", "u", "v", "w", "x", "y", "z" >>

\* The lower-case form of each upper-case ASCII letter.
lowerOf ==
  [ c \in Range(UpperCase) |->
      LowerCase[CHOOSE i \in DOMAIN UpperCase : UpperCase[i] = c] ]

\* String.prototype.toLowerCase on one character (ASCII letters).
toLowerCaseChar(c) == IF c \in DOMAIN lowerOf THEN lowerOf[c] ELSE c

toLowerCaseIdentity(s) == s

\* String.prototype.toLowerCase
toLowerCase(s) == [ i \in 1..Len(s) |-> toLowerCaseChar(s[i]) ]

startsWith(s, keyword) ==
  /\ Len(s) >= Len(keyword)
  /\ SubSeq(s, 1, Len(keyword)) = keyword

\* String.prototype.includes: keyword occurs in s as a contiguous substring.
includes(s, keyword) ==
  \E i \in 0..(Len(s) - Len(keyword)) :
     SubSeq(s, i + 1, i + Len(keyword)) = keyword

\* config.keywords.some(keyword => normalizedQuery.includes(keyword))
hasMatch(normalizedQuery, category) ==
  \E k \in DOMAIN keywords(category) :
     includes(normalizedQuery, keywords(category)[k])

\* The for loop of classifyQuery over Object.entries(KNOWLEDGE_CATEGORIES):
\* the categories with a match, pushed in declaration order.
RECURSIVE matchLoop(_, _)
matchLoop(normalizedQuery, i) ==
  IF i > Len(Categories) THEN << >>
  ELSE (IF hasMatch(normalizedQuery, Categories[i])
        THEN << Categories[i] >> ELSE << >>)
       \o matchLoop(normalizedQuery, i + 1)

\* relevantCategories.push('contacts', 'faculties')
defaultCategories == << "contacts", "faculties" >>

classifyQueryNoDefault(q) == matchLoop(toLowerCase(q), 1)

classifyQueryAlwaysDefault(q) ==
  matchLoop(toLowerCase(q), 1) \o defaultCategories

classifyQueryContactsOnly(q) ==
  LET relevantCategories == matchLoop(toLowerCase(q), 1)
  IN  IF Len(relevantCategories) = 0 THEN << "contacts" >>
      ELSE relevantCategories

\* QueryClassifier.classifyQuery
classifyQuery(q) ==
  LET normalizedQuery == toLowerCase(q)
      relevantCategories == matchLoop(normalizedQuery, 1)
  IN  IF Len(relevantCategories) = 0 THEN defaultCategories
      ELSE relevantCategories

getQueryScoresFirstKeyword(q) ==
  LET normalizedQuery == toLowerCase(q)
  IN  [ category \in Range(Categories) |->
          [ matchCount |->
              IF includes(normalizedQuery, keywords(category)[1]) THEN 1 ELSE 0,
            length |-> Len(keywords(category)) ] ]

\* QueryClassifier.getQueryScores.  A score is kept as the two numbers the
\* code divides, matchCount / config.keywords.length.
getQueryScores(q) ==
  LET normalizedQuery == toLowerCase(q)
  IN  [ category \in Range(Categories) |->
          [ matchCount |->
              Cardinality({ k \in DOMAIN keywords(category) :
                              includes(normalizedQuery, keywords(category)[k]) }),
            length |-> Len(keywords(category)) ] ]

\* No call of getQueryScores has been made.
NotScored == [ category \in {} |-> [ matchCount |-> 0, length |-> 0 ] ]

(***************************************************************************)
(* SmartKnowledgeBase: the prompt assembler.  The prompt is the sequence   *)
(* of the pieces generateContextPrompt concatenates: the literal text of   *)
(* its templates, and the values interpolated into them.  A knowledge      *)
(* record is described by what the assembler can observe of it: whether    *)
(* the value is truthy, which of the fields a section reads are absent or  *)
(* falsy, and whether reading it throws inside the section's try block (a  *)
(* value without map or find where an array is expected, a null element).  *)
(***************************************************************************)

Record(isTruthy, falsy, throws) ==
  [ truthy |-> isTruthy, falsy |-> falsy, throws |-> throws ]

Literal(text) == [ kind |-> "literal", text |-> text ]

\* The value read at path, converted to a string by the template.
Field(path) == [ kind |-> "field", text |-> path ]

\* The bullet character U+2022 of the contacts template.
BULLET == Literal("\\u2022")

\* Number.prototype.toLocaleString; its digit grouping depends on the locale
\* of the host, so the result is kept as the conversion of its argument.
toLocaleString(value) ==
  [ kind |-> IF value.kind = "literal" THEN "toLocaleString(literal)"
             ELSE "toLocaleString(field)",
    text |-> value.text ]

\* value || fallback, value being read through the optional chain at path
orElse(record, path, fallback) ==
  IF path \in record.falsy THEN Literal(fallback) ELSE Field(path)

PREAMBLE ==
  << Literal("You are AU Smart Assistant for Assumption University Thailand. Be helpful, friendly, and concise (2-3 sentences max).\n\nAVAILABLE KNOWLEDGE:") >>

CLOSING ==
  << Literal("\n\nINSTRUCTIONS:\n1. Only answer AU-related questions using the above information\n2. Be concise (2-3 sentences maximum)\n3. For unrelated questions: \"I can only help with AU information about programs, admissions, campus life, fees, and contact details. What would you like to know about AU?\"\n4. If you need more specific information, ask for clarification\n5. Always be helpful and direct\n\nEXAMPLES:\nQ: \"What programs do you offer?\"\nA: \"AU offers undergraduate programs in Business, Engineering, Computer Science, Communication Arts, Architecture, Nursing, Law, and Medicine. We also have graduate MBA, Masters, and Doctoral programs. Which area interests you?\"\n\nQ: \"How much is tuition?\"\nA: \"Undergraduate tuition is 112,000-350,000 THB per year. Graduate programs range from 200,000-550,000 THB per year, plus additional fees.\"\n\nStay focused on AU information only.") >>

\* The first line of each section's template, after its two line breaks.
sectionHeader(category) ==
  CASE category = "contacts"  -> Literal("CONTACT INFORMATION:")
    [] category = "faculties" -> Literal("ACADEMIC PROGRAMS:")
    [] category = "tuitions"  -> Literal("TUITION FEES (THB):")
    [] category = "history"   -> Literal("UNIVERSITY HISTORY:")

contactsSection(contacts) ==
  << Literal("\n\n"), sectionHeader("contacts"),
     Literal("\n- Main Website: "),
     orElse(contacts, "contacts.main_website", "au.edu"),
     Literal("\n- Campuses:\n  "), BULLET, Literal(" Hua Mak Campus: "),
     orElse(contacts, "contacts.campuses[0].address", "Bangkok"),
     Literal(", Phone: "),
     orElse(contacts, "contacts.campuses[0].phone", "+66 2 719 1919"),
     Literal("\n  "), BULLET, Literal(" Suvarnabhumi Campus: "),
     orElse(contacts, "contacts.campuses[1].address", "Samutprakarn"),
     Literal(", Phone: "),
     orElse(contacts, "contacts.campuses[1].phone", "+66 2 723 2323") >>

\* undergradSchools is the names of faculties.undergraduate joined by ', '.
facultiesSection(faculties) ==
  << Literal("\n\n"), sectionHeader("faculties"),
     Literal("\n- Undergraduate Schools: "),
     orElse(faculties, "faculties.faculties.undergraduate[].name",
            "Business, Engineering, Computer Science, Arts"),
     Literal("\n- Popular Programs: Business Administration, Computer Science, Engineering, Communication Arts, Architecture, Nursing, Law, Medicine\n- Graduate Programs: Masters and Doctoral degrees available in Business, Science & Technology, Biotechnology, Human Sciences") >>

tuitionsSection(tuitions) ==
  LET ugMin == orElse(tuitions, "tuitions.tuition_fees_thb.undergraduate.domestic_students.annual_fee_range.min", "112000")
      ugMax == orElse(tuitions, "tuitions.tuition_fees_thb.undergraduate.domestic_students.annual_fee_range.max", "350000")
      gradMin == orElse(tuitions, "tuitions.tuition_fees_thb.graduate.masters_programs.annual_fee_range.min", "200000")
      gradMax == orElse(tuitions, "tuitions.tuition_fees_thb.graduate.mba_programs.total_fee_range.max", "550000")
      matriculation == orElse(tuitions, "tuitions.tuition_fees_thb.undergraduate.domestic_students.additional_fees.matriculation_fee", "23500")
      insurance == orElse(tuitions, "tuitions.tuition_fees_thb.undergraduate.domestic_students.additional_fees.health_insurance", "3650")
  IN  << Literal("\n\n"), sectionHeader("tuitions"),
         Literal("\n- Undergraduate: "), toLocaleString(ugMin),
         Literal("-"), toLocaleString(ugMax),
         Literal(" per year\n- Graduate/MBA: "), toLocaleString(gradMin),
         Literal("-"), toLocaleString(gradMax),
         Literal(" per year\n- Additional Fees: Matriculation "),
         toLocaleString(matriculation),
         Literal(" THB, Health Insurance "), toLocaleString(insurance),
         Literal(" THB") >>

historySection(history) ==
  LET founded == orElse(history, "history.history.origins.registration_year", "1938")
      originalName == orElse(history, "history.history.origins.original_institution", "Assumption Commercial College")
      universityEvent == orElse(history, "history.history.origins.notable_dates[year=1990].event", "Granted full university status")
      founder == orElse(history, "history.history.origins.founder", "Brothers of St. Gabriel")
      totalStudents == orElse(history, "history.history.origins.student_body.total_students", "100000")
      internationalInfo == orElse(history, "history.history.origins.student_body.international_students", "over 100 countries")
      philosophy == orElse(history, "history.history.origins.philosophy", "Open, international community with moral integrity")
  IN  << Literal("\n\n"), sectionHeader("history"),
         Literal("\n- Founded: "), founded, Literal(" as "), originalName,
         Literal("\n- University Status: "), universityEvent,
         Literal("\n- Founded by: "), founder,
         Literal("\n- Students: "), toLocaleString(totalStudents),
         Literal("+ students from "), internationalInfo,
         Literal("\n- Philosophy: "), philosophy >>

\* The body of the try block of category's section.
section(category, record) ==
  CASE category = "contacts"  -> contactsSection(record)
    [] category = "faculties" -> facultiesSection(record)
    [] category = "tuitions"  -> tuitionsSection(record)
    [] category = "history"   -> historySection(record)

\* try { prompt += rendered } catch { console.error }: the template is
\* evaluated before prompt is assigned, so a throw leaves prompt as it was.
tryBlock(record, rendered) == IF record.throws THEN << >> ELSE rendered

\* categories.includes(category) && relevantData[category]
emitted(categories, relevantData, category) ==
  /\ category \in Range(categories)
  /\ category \in DOMAIN relevantData
  /\ relevantData[category].truthy

\* What the if statement of category appends to prompt.
sectionOf(categories, relevantData, category) ==
  IF emitted(categories, relevantData, category)
  THEN tryBlock(relevantData[category],
                section(category, relevantData[category]))
  ELSE << >>

generateContextPromptReturnsEarly(categories, relevantData) ==
  IF Len(categories) = 0 THEN PREAMBLE
  ELSE PREAMBLE
       \o sectionOf(categories, relevantData, "contacts")
       \o sectionOf(categories, relevantData, "faculties")
       \o sectionOf(categories, relevantData, "tuitions")
       \o sectionOf(categories, relevantData, "history")
       \o CLOSING

RECURSIVE sectionsInInputOrder(_, _, _)
sectionsInInputOrder(categories, relevantData, i) ==
  IF i > Len(categories) THEN << >>
  ELSE sectionOf(categories, relevantData, categories[i])
       \o sectionsInInputOrder(categories, relevantData, i + 1)

generateContextPromptInputOrder(categories, relevantData) ==
  PREAMBLE \o sectionsInInputOrder(categories, relevantData, 1) \o CLOSING

generateContextPromptEnumerationOrder(categories, relevantData) ==
  PREAMBLE
  \o sectionOf(categories, relevantData, "contacts")
  \o sectionOf(categories, relevantData, "faculties")
  \o sectionOf(categories, relevantData, "history")
  \o sectionOf(categories, relevantData, "tuitions")
  \o CLOSING

generateContextPromptOuterTry(categories, relevantData) ==
  LET thrown(c) == /\ emitted(categories, relevantData, c)
                   /\ relevantData[c].throws
      sec(c)    == sectionOf(categories, relevantData, c)
  IN  PREAMBLE
      \o sec("contacts")
      \o (IF thrown("contacts") THEN << >>
          ELSE sec("faculties")
               \o (IF thrown("faculties") THEN << >>
                   ELSE sec("tuitions")
                        \o (IF thrown("tuitions") THEN << >>
                            ELSE sec("history"))))
      \o CLOSING

\* SmartKnowledgeBase.generateContextPrompt: the preamble, the four if
\* statements in the order the code has them, the closing block.
generateContextPrompt(categories, relevantData) ==
  PREAMBLE
  \o sectionOf(categories, relevantData, "contacts")
  \o sectionOf(categories, relevantData, "faculties")
  \o sectionOf(categories, relevantData, "tuitions")
  \o sectionOf(categories, relevantData, "history")
  \o CLOSING

getRelevantDataEmpty(categories) == [ category \in {} |-> Record(FALSE, {}, FALSE) ]

\* SmartKnowledgeBase.getRelevantData: KNOWLEDGE_CATEGORIES[category].data
\* for each category of the list.
getRelevantData(categories) ==
  [ category \in Range(categories) |-> knowledgeBase[category] ]

\* SmartKnowledgeBase.getContextualKnowledge (data and tokenEstimate, which
\* repeat relevantData and the length of the prompt, are left out).
getContextualKnowledge(q) ==
  LET relevantCategories == classifyQuery(q)
      relevantData == getRelevantData(relevantCategories)
  IN  [ categories |-> relevantCategories,
        prompt     |-> generateContextPrompt(relevantCategories, relevantData) ]

MaxCategories == 3

\* The fields a partly filled record lacks: its section mixes values read
\* from the record with fallbacks.
PartialFalsy(category) ==
  CASE category = "contacts"  ->
         { "contacts.campuses[0].phone", "contacts.campuses[1].address" }
    [] category = "faculties" ->
         { "faculties.faculties.undergraduate[].name" }
    [] category = "tuitions"  ->
         { "tuitions.tuition_fees_thb.undergraduate.domestic_students.annual_fee_range.max",
           "tuitions.tuition_fees_thb.undergraduate.domestic_students.additional_fees.matriculation_fee" }
    [] category = "history"   ->
         { "history.history.origins.registration_year",
           "history.history.origins.student_body.total_students" }

\* A record that is missing (undefined or null), complete, partly filled,
\* or of a shape whose reading throws.
KnowledgeRecords(category) ==
  { Record(FALSE, {}, FALSE), Record(TRUE, {}, FALSE),
    Record(TRUE, PartialFalsy(category), FALSE), Record(TRUE, {}, TRUE) }

\* The JSON files as imported, every field present.
LoadedKnowledge == [ category \in Range(Categories) |-> Record(TRUE, {}, FALSE) ]

\* generateContextPrompt called with the previous list and one more entry,
\* and the data getRelevantData returns for that list.
GenerateWith(category) ==
  /\ promptCategories' = Append(promptCategories, category)
  /\ prompt' = generateContextPrompt(promptCategories',
                                     getRelevantData(promptCategories'))
  /\ UNCHANGED << knowledgeBase, queryVars, scores, sessionVars >>

(***************************************************************************)
(* The classifier's workload: the stateless chat route hands each message  *)
(* to getContextualKnowledge, which classifies it.  Messages are built     *)
(* from fragments, so that keywords occur in any letter case, inside       *)
(* longer words and across fragment boundaries.                            *)
(***************************************************************************)

MaxFragments == 3

Fragments ==
  { <<"H","o","w"," ","m","u","c","h"," ","i","s"," ">>,
    <<"t","u","i","t","i","o","n">>,
    <<"?">>,
    <<"a","s","d","k","j","a","s","d">>,
    <<"W","H","E","R","E">>,
    <<"T","u">>,
    <<"i","t","i","o","n">>,
    <<"H","i","s","t","o","r","y">>,
    <<"S","c","h","o","o","l"," ","f","e","e">> }

\* One fragment alone is the message.
ClassifyNew(f) ==
  /\ query' = f
  /\ fragments' = 1
  /\ LET knowledge == getContextualKnowledge(query')
     IN  /\ classified' = knowledge.categories
         /\ promptCategories' = knowledge.categories
         /\ prompt' = knowledge.prompt
  /\ UNCHANGED << knowledgeBase, scores, sessionVars >>

\* The previous message with more text after it.
ClassifyAppended(f) ==
  /\ fragments < MaxFragments
  /\ query' = query \o f
  /\ fragments' = fragments + 1
  /\ LET knowledge == getContextualKnowledge(query')
     IN  /\ classified' = knowledge.categories
         /\ promptCategories' = knowledge.categories
         /\ prompt' = knowledge.prompt
  /\ UNCHANGED << knowledgeBase, scores, sessionVars >>

\* The previous message with more text before it.
ClassifyPrepended(f) ==
  /\ fragments < MaxFragments
  /\ query' = f \o query
  /\ fragments' = fragments + 1
  /\ LET knowledge == getContextualKnowledge(query')
     IN  /\ classified' = knowledge.categories
         /\ promptCategories' = knowledge.categories
         /\ prompt' = knowledge.prompt
  /\ UNCHANGED << knowledgeBase, scores, sessionVars >>

\* The previous message with more text after it, classified and scored.
ScoreAppended(f) ==
  /\ fragments < MaxFragments
  /\ query' = query \o f
  /\ fragments' = fragments + 1
  /\ LET knowledge == getContextualKnowledge(query')
     IN  /\ classified' = knowledge.categories
         /\ promptCategories' = knowledge.categories
         /\ prompt' = knowledge.prompt
  /\ scores' = getQueryScores(query')
  /\ UNCHANGED << knowledgeBase, sessionVars >>

(***************************************************************************)
(* AUGeminiClient (lib/gemini, the conversational client).                 *)
(***************************************************************************)

\* The text of the constant SYSTEM_PROMPT, which the code never inspects.
SYSTEM_PROMPT == "SYSTEM_PROMPT"

\* The fallback of generateResponse for an empty response.text.
COULD_NOT_GENERATE ==
  "I apologize, but I couldn't generate a response. Please try again."

\* The string generateResponse returns from its catch block.
APOLOGY ==
  "I apologize, but I'm having trouble processing your request right now. Please try again or contact AU directly at +66 2 719 1919."

maxHistoryLength == 10

userMessage(text) == [ role |-> "user", text |-> text ]

modelMessage(text) == [ role |-> "model", text |-> text ]

\* The constructor's push, and the array resetConversation assigns.
systemHistory == << modelMessage(SYSTEM_PROMPT) >>

resetConversationEmpty == << >>

\* AUGeminiClient.resetConversation: the new value of conversationHistory.
resetConversation == systemHistory

\* Array.prototype.slice(-n): the last n elements, or all when there are fewer.
sliceLast(a, n) ==
  SubSeq(a, (IF Len(a) > n THEN Len(a) - n ELSE 0) + 1, Len(a))

trimKeepsOldest(history) ==
  IF Len(history) > maxHistoryLength + 1
  THEN SubSeq(history, 1, maxHistoryLength + 1)
  ELSE history

trimDropsSystemPrompt(history) ==
  IF Len(history) > maxHistoryLength + 1
  THEN sliceLast(history, maxHistoryLength + 1)
  ELSE history

trimKeepsNine(history) ==
  IF Len(history) > maxHistoryLength + 1
  THEN << history[1] >> \o sliceLast(history, maxHistoryLength - 1)
  ELSE history

\* AUGeminiClient.trimConversationHistory: the new value of conversationHistory.
trimConversationHistory(history) ==
  IF Len(history) > maxHistoryLength + 1
  THEN << history[1] >> \o sliceLast(history, maxHistoryLength)
  ELSE history

buildContextualPromptWindowOnly(history, message) ==
  sliceLast(Append(history, userMessage(message)), maxHistoryLength + 1)

\* AUGeminiClient.buildContextualPrompt: the context sent to the model.
buildContextualPrompt(history, message) ==
  LET contextMessages == Append(history, userMessage(message))
  IN  IF Len(contextMessages) > maxHistoryLength + 2
      THEN << contextMessages[1] >>
           \o sliceLast(contextMessages, maxHistoryLength + 1)
      ELSE contextMessages

appendExchangeReplyFirst(history, message, text) ==
  LET responseText == IF text = "" THEN COULD_NOT_GENERATE ELSE text
  IN  trimConversationHistory(
        Append(Append(history, modelMessage(responseText)),
               userMessage(message)))

\* generateResponse after the model call resolved with response.text = text:
\* the two pushes and the trim.
appendExchange(history, message, text) ==
  LET responseText == IF text = "" THEN COULD_NOT_GENERATE ELSE text
  IN  trimConversationHistory(
        Append(Append(history, userMessage(message)),
               modelMessage(responseText)))

\* getConversationStats().messageCount
messageCount(history) == Len(history)

(***************************************************************************)
(* The session registry (the conversational chat route).                   *)
(***************************************************************************)

SESSION_TIMEOUT == 30 * 60 * 1000

isExpiredInclusive(t, timestamp) == t - timestamp >= SESSION_TIMEOUT

\* The test of cleanupOldSessions' loop.
isExpired(t, timestamp) == t - timestamp > SESSION_TIMEOUT

Restrict(f, S) == [ x \in S |-> f[x] ]

cleanupOneEntry(sessions, timestamps, t) ==
  LET expired == { id \in DOMAIN timestamps : isExpired(t, timestamps[id]) }
      first   == IF expired = {} THEN {}
                 ELSE { CHOOSE id \in expired : TRUE }
  IN  [ sessions   |-> Restrict(sessions, DOMAIN sessions \ first),
        timestamps |-> Restrict(timestamps, DOMAIN timestamps \ first) ]

cleanupSessionsOnly(sessions, timestamps, t) ==
  LET expired == { id \in DOMAIN timestamps : isExpired(t, timestamps[id]) }
  IN  [ sessions   |-> Restrict(sessions, DOMAIN sessions \ expired),
        timestamps |-> timestamps ]

\* cleanupOldSessions: both maps without the entries of the expired ids
\* (the loop runs over the entries of sessionTimestamps).
cleanupOldSessions(sessions, timestamps, t) ==
  LET expired == { id \in DOMAIN timestamps : isExpired(t, timestamps[id]) }
  IN  [ sessions   |-> Restrict(sessions, DOMAIN sessions \ expired),
        timestamps |-> Restrict(timestamps, DOMAIN timestamps \ expired) ]

getOrCreateSessionAlwaysNew(sessionId, scan) ==
  LET cleaned == IF scan
                 THEN cleanupOldSessions(conversationSessions,
                                         sessionTimestamps, now)
                 ELSE [ sessions   |-> conversationSessions,
                        timestamps |-> sessionTimestamps ]
      client  == Len(conversationHistory) + 1
  IN  [ client     |-> client,
        sessions   |-> (sessionId :> client) @@ cleaned.sessions,
        timestamps |-> (sessionId :> now) @@ cleaned.timestamps,
        histories  |-> Append(conversationHistory, systemHistory) ]

getOrCreateSessionSharesObject(sessionId, scan) ==
  LET cleaned == IF scan
                 THEN cleanupOldSessions(conversationSessions,
                                         sessionTimestamps, now)
                 ELSE [ sessions   |-> conversationSessions,
                        timestamps |-> sessionTimestamps ]
      found   == sessionId \in DOMAIN cleaned.sessions
      shared  == ~found /\ Len(conversationHistory) > 0
      client  == IF found THEN cleaned.sessions[sessionId]
                 ELSE IF shared THEN 1
                 ELSE Len(conversationHistory) + 1
  IN  [ client     |-> client,
        sessions   |-> IF found THEN cleaned.sessions
                       ELSE (sessionId :> client) @@ cleaned.sessions,
        timestamps |-> (sessionId :> now) @@ cleaned.timestamps,
        histories  |-> IF found \/ shared THEN conversationHistory
                       ELSE Append(conversationHistory, systemHistory) ]

getOrCreateSessionAlwaysScans(sessionId, scan) ==
  LET cleaned == cleanupOldSessions(conversationSessions,
                                    sessionTimestamps, now)
      found   == sessionId \in DOMAIN cleaned.sessions
      client  == IF found THEN cleaned.sessions[sessionId]
                 ELSE Len(conversationHistory) + 1
  IN  [ client     |-> client,
        sessions   |-> IF found THEN cleaned.sessions
                       ELSE (sessionId :> client) @@ cleaned.sessions,
        timestamps |-> (sessionId :> now) @@ cleaned.timestamps,
        histories  |-> IF found THEN conversationHistory
                       ELSE Append(conversationHistory, systemHistory) ]

getOrCreateSessionLookupFirst(sessionId, scan) ==
  LET found   == sessionId \in DOMAIN conversationSessions
      client  == IF found THEN conversationSessions[sessionId]
                 ELSE Len(conversationHistory) + 1
      cleaned == IF scan
                 THEN cleanupOldSessions(conversationSessions,
                                         sessionTimestamps, now)
                 ELSE [ sessions   |-> conversationSessions,
                        timestamps |-> sessionTimestamps ]
  IN  [ client     |-> client,
        sessions   |-> (sessionId :> client) @@ cleaned.sessions,
        timestamps |-> (sessionId :> now) @@ cleaned.timestamps,
        histories  |-> IF found THEN conversationHistory
                       ELSE Append(conversationHistory, systemHistory) ]

\* getOrCreateSession(sessionId); scan is the outcome of Math.random() < 0.1.
\* The result names the object returned and the maps and objects after the call.
getOrCreateSession(sessionId, scan) ==
  LET cleaned == IF scan
                 THEN cleanupOldSessions(conversationSessions,
                                         sessionTimestamps, now)
                 ELSE [ sessions   |-> conversationSessions,
                        timestamps |-> sessionTimestamps ]
      found   == sessionId \in DOMAIN cleaned.sessions
      client  == IF found THEN cleaned.sessions[sessionId]
                 ELSE Len(conversationHistory) + 1
  IN  [ client     |-> client,
        sessions   |-> IF found THEN cleaned.sessions
                       ELSE (sessionId :> client) @@ cleaned.sessions,
        timestamps |-> (sessionId :> now) @@ cleaned.timestamps,
        histories  |-> IF found THEN conversationHistory
                       ELSE Append(conversationHistory, systemHistory) ]

(***************************************************************************)
(* Request bodies.  A JSON value the handlers look at is a record with its *)
(* JavaScript type and, for a string, its text.                            *)
(***************************************************************************)

Undefined == [ type |-> "undefined", value |-> "" ]

Str(s) == [ type |-> "string", value |-> s ]

Num(n) == [ type |-> "number", value |-> n ]

\* JavaScript truthiness of such a value (the numbers used are not 0).
truthyAnyString(v) == v.type = "number" \/ v.type = "string"

truthy(v) == v.type = "number" \/ (v.type = "string" /\ v.value # "")

\* A body request.json() parses, and one it rejects by throwing.
Body(message, sessionId) ==
  [ parses |-> TRUE, message |-> message, sessionId |-> sessionId ]

Unparsable == [ parses |-> FALSE, message |-> Undefined, sessionId |-> Undefined ]

Response(handler, status, sessionId, text, count) ==
  [ handler |-> handler, status |-> status, sessionId |-> sessionId,
    text |-> text, messageCount |-> count ]

NoResponse == Response("", 0, "", "", 0)

(***************************************************************************)
(* The handlers.  POST runs from the parsed body to the await of the model *)
(* call inside generateResponse in one step; the call then resolves        *)
(* (ModelReplies) or rejects (ModelFails) in a later step, which runs the  *)
(* rest of generateResponse and of POST.  DELETE has no await after the    *)
(* body is parsed.                                                         *)
(***************************************************************************)

\* export async function POST, up to the model call.  generated is the id
\* built from Date.now() and Math.random() when the body carries none.
POST(body, scan, generated) ==
  /\ UNCHANGED << classifierVars, now, apiKeyConfigured, ticks >>
  /\ IF ~body.parses
     THEN /\ response' = Response("POST", 500, "", "Failed to process chat message", 0)
          /\ scanned' = FALSE
          /\ UNCHANGED << conversationSessions, sessionTimestamps,
                          conversationHistory, inflight, requests >>
     ELSE IF ~(truthy(body.message) /\ body.message.type = "string")
     THEN /\ response' = Response("POST", 400, "", "Message is required and must be a string", 0)
          /\ scanned' = FALSE
          /\ UNCHANGED << conversationSessions, sessionTimestamps,
                          conversationHistory, inflight, requests >>
     ELSE IF ~apiKeyConfigured
     THEN /\ response' = Response("POST", 500, "", "GEMINI_API_KEY is not configured", 0)
          /\ scanned' = FALSE
          /\ UNCHANGED << conversationSessions, sessionTimestamps,
                          conversationHistory, inflight, requests >>
     ELSE LET currentSessionId == IF truthy(body.sessionId)
                                  THEN body.sessionId.value ELSE generated
              got == getOrCreateSession(currentSessionId, scan)
              conversationContext ==
                buildContextualPrompt(got.histories[got.client],
                                      body.message.value)
          IN  /\ conversationSessions' = got.sessions
              /\ sessionTimestamps' = got.timestamps
              /\ conversationHistory' = got.histories
              /\ scanned' = scan
              /\ requests' = requests + 1
              /\ inflight' = inflight \cup
                   { [ request   |-> requests + 1,
                       sessionId |-> currentSessionId,
                       client    |-> got.client,
                       message   |-> body.message.value,
                       context   |-> conversationContext ] }
              /\ UNCHANGED response

ModelRepliesWritesSnapshot(r, text) ==
  /\ r \in inflight
  /\ conversationHistory' =
       [ conversationHistory EXCEPT
           ![r.client] =
              trimConversationHistory(
                Append(r.context,
                       modelMessage(IF text = "" THEN COULD_NOT_GENERATE
                                    ELSE text))) ]
  /\ inflight' = inflight \ { r }
  /\ response' = Response("POST", 200, r.sessionId,
                          IF text = "" THEN COULD_NOT_GENERATE ELSE text,
                          messageCount(conversationHistory'[r.client]))
  /\ scanned' = FALSE
  /\ UNCHANGED << classifierVars, now, apiKeyConfigured, conversationSessions,
                  sessionTimestamps, requests, ticks >>

\* The model call of request r resolves with response.text = text: the rest
\* of generateResponse, then the rest of POST.  (POST resumes one microtask
\* after generateResponse returns; no request or model reply arrives in
\* between, so the two run as one step.  estimatedTokens, which depends on
\* the length of the texts, is left out of the response.)
ModelReplies(r, text) ==
  /\ r \in inflight
  /\ conversationHistory' =
       [ conversationHistory EXCEPT
           ![r.client] = appendExchange(@, r.message, text) ]
  /\ inflight' = inflight \ { r }
  /\ response' = Response("POST", 200, r.sessionId,
                          IF text = "" THEN COULD_NOT_GENERATE ELSE text,
                          messageCount(conversationHistory'[r.client]))
  /\ scanned' = FALSE
  /\ UNCHANGED << classifierVars, now, apiKeyConfigured, conversationSessions,
                  sessionTimestamps, requests, ticks >>

ModelFailsPropagates(r) ==
  /\ r \in inflight
  /\ inflight' = inflight \ { r }
  /\ response' = Response("POST", 500, "", "Failed to process chat message", 0)
  /\ scanned' = FALSE
  /\ UNCHANGED << classifierVars, now, apiKeyConfigured, conversationSessions,
                  sessionTimestamps, conversationHistory, requests, ticks >>

ModelFailsAppends(r) ==
  /\ r \in inflight
  /\ conversationHistory' =
       [ conversationHistory EXCEPT
           ![r.client] = appendExchange(@, r.message, APOLOGY) ]
  /\ inflight' = inflight \ { r }
  /\ response' = Response("POST", 200, r.sessionId, APOLOGY,
                          messageCount(conversationHistory'[r.client]))
  /\ scanned' = FALSE
  /\ UNCHANGED << classifierVars, now, apiKeyConfigured, conversationSessions,
                  sessionTimestamps, requests, ticks >>

\* The model call of request r rejects: the catch block of generateResponse,
\* then the rest of POST.
ModelFails(r) ==
  /\ r \in inflight
  /\ inflight' = inflight \ { r }
  /\ response' = Response("POST", 200, r.sessionId, APOLOGY,
                          messageCount(conversationHistory[r.client]))
  /\ scanned' = FALSE
  /\ UNCHANGED << classifierVars, now, apiKeyConfigured, conversationSessions,
                  sessionTimestamps, conversationHistory, requests, ticks >>

DELETECreatesSession(body) ==
  /\ UNCHANGED << classifierVars, now, apiKeyConfigured, inflight, requests,
                  ticks >>
  /\ scanned' = FALSE
  /\ IF ~body.parses
     THEN /\ response' = Response("DELETE", 500, "", "Failed to reset conversation", 0)
          /\ UNCHANGED << conversationSessions, sessionTimestamps,
                          conversationHistory >>
     ELSE IF truthy(body.sessionId)
     THEN LET got == getOrCreateSession(body.sessionId.value, FALSE)
          IN  /\ conversationSessions' = got.sessions
              /\ sessionTimestamps' = got.timestamps
              /\ conversationHistory' =
                   [ got.histories EXCEPT ![got.client] = resetConversation ]
              /\ response' = Response("DELETE", 200, body.sessionId.value,
                                      "Conversation reset successfully", 0)
     ELSE /\ response' = Response("DELETE", 404, "", "Session not found", 0)
          /\ UNCHANGED << conversationSessions, sessionTimestamps,
                          conversationHistory >>

\* export async function DELETE
DELETE(body) ==
  /\ UNCHANGED << classifierVars, now, apiKeyConfigured, inflight, requests,
                  ticks >>
  /\ scanned' = FALSE
  /\ IF ~body.parses
     THEN /\ response' = Response("DELETE", 500, "", "Failed to reset conversation", 0)
          /\ UNCHANGED << conversationSessions, sessionTimestamps,
                          conversationHistory >>
     ELSE IF /\ truthy(body.sessionId)
             /\ body.sessionId.value \in DOMAIN conversationSessions
     THEN /\ conversationHistory' =
               [ conversationHistory EXCEPT
                   ![conversationSessions[body.sessionId.value]] =
                      resetConversation ]
          /\ response' = Response("DELETE", 200, body.sessionId.value,
                                  "Conversation reset successfully", 0)
          /\ UNCHANGED << conversationSessions, sessionTimestamps >>
     ELSE /\ response' = Response("DELETE", 404, "", "Session not found", 0)
          /\ UNCHANGED << conversationSessions, sessionTimestamps,
                          conversationHistory >>

\* Time passes between two handler steps.
Tick(d) ==
  /\ now' = now + d
  /\ ticks' = ticks + 1
  /\ scanned' = FALSE
  /\ UNCHANGED << classifierVars, apiKeyConfigured, conversationSessions,
                  sessionTimestamps, conversationHistory, inflight, requests,
                  response >>

(***************************************************************************)
(* Workloads.                                                              *)
(***************************************************************************)

MaxRequests == 2
MaxInflight == 2
MaxTicks == 1
MaxExchanges == 7
MaxOverlap == 2

\* The ids clients send: one of their own choice, and the id an earlier
\* response gave them.
SessionIds == { "s1", "session_1" }
GeneratedIds == { "session_1" }
Replies == { "r1", "" }
\* The clock advances by exactly the timeout, or by one millisecond more.
TickSteps == { SESSION_TIMEOUT, SESSION_TIMEOUT + 1 }
EmptyMap == [ x \in {} |-> 0 ]

\* Bodies of the registry workload: every kind of session id with a valid
\* message, every kind of invalid message, and a body that does not parse.
SessionIdValues == { Str(id) : id \in SessionIds } \cup { Str(""), Undefined }

PostBodies ==
  { Unparsable }
  \cup { Body(Str("m1"), s) : s \in SessionIdValues }
  \cup { Body(m, Str("s1")) : m \in { Str(""), Undefined, Num("42") } }

DeleteBodies == { Unparsable } \cup { Body(Undefined, s) : s \in SessionIdValues }

\* The message of the n-th request of the one-conversation workload: each
\* request carries a text of its own, so that every element of a history
\* tells which request put it there.
MessageTexts == << "m1", "m2", "m3", "m4", "m5", "m6", "m7", "m8" >>

ConversationBody(n) == Body(Str(MessageTexts[n]), Str("s1"))

InitSessions ==
  /\ now = 0
  /\ conversationSessions = EmptyMap
  /\ sessionTimestamps = EmptyMap
  /\ conversationHistory = << >>
  /\ inflight = {}
  /\ requests = 0
  /\ ticks = 0
  /\ scanned = FALSE
  /\ response = NoResponse

\* The session route after module load, before any request.
Init ==
  /\ query = << >>
  /\ fragments = 0
  /\ classified = classifyQuery(query)
  /\ knowledgeBase = LoadedKnowledge
  /\ promptCategories = getContextualKnowledge(query).categories
  /\ prompt = getContextualKnowledge(query).prompt
  /\ apiKeyConfigured \in BOOLEAN
  /\ InitSessions
  /\ scores = NotScored

\* Many sessions, few requests each, and a clock that crosses the timeout.
Next ==
  \/ \E body \in PostBodies, scan \in BOOLEAN, generated \in GeneratedIds :
       /\ requests < MaxRequests
       /\ Cardinality(inflight) < MaxInflight
       /\ POST(body, scan, generated)
  \/ \E r \in inflight, text \in Replies : ModelReplies(r, text)
  \/ \E r \in inflight : ModelFails(r)
  \/ \E body \in DeleteBodies : DELETE(body)
  \/ \E d \in TickSteps : ticks < MaxTicks /\ Tick(d)

Spec == Init /\ [][Next]_vars

InitConversation ==
  /\ query = << >>
  /\ fragments = 0
  /\ classified = classifyQuery(query)
  /\ knowledgeBase = LoadedKnowledge
  /\ promptCategories = getContextualKnowledge(query).categories
  /\ prompt = getContextualKnowledge(query).prompt
  /\ apiKeyConfigured = TRUE
  /\ InitSessions
  /\ scores = NotScored

\* One session, enough exchanges for its history to be trimmed.
NextConversation ==
  \/ \E scan \in BOOLEAN :
       /\ requests < MaxExchanges
       /\ requests < Len(MessageTexts)
       /\ Cardinality(inflight) < MaxOverlap
       /\ POST(ConversationBody(requests + 1), scan, "session_1")
  \/ \E r \in inflight : ModelReplies(r, "r1")
  \/ \E r \in inflight : ModelFails(r)
  \/ DELETE(Body(Undefined, Str("s1")))

SpecConversation == InitConversation /\ [][NextConversation]_vars

InitClassifier ==
  /\ query \in Fragments \cup { << >> }
  /\ fragments = (IF query = << >> THEN 0 ELSE 1)
  /\ classified = classifyQuery(query)
  /\ knowledgeBase = LoadedKnowledge
  /\ promptCategories = getContextualKnowledge(query).categories
  /\ prompt = getContextualKnowledge(query).prompt
  /\ apiKeyConfigured = TRUE
  /\ InitSessions
  /\ scores = NotScored

NextClassifier ==
  \E f \in Fragments :
    \/ ClassifyNew(f)
    \/ ClassifyAppended(f)
    \/ ClassifyPrepended(f)

SpecClassifier == InitClassifier /\ [][NextClassifier]_vars

\* Messages that are classified and scored.
InitScores ==
  /\ query \in Fragments \cup { << >> }
  /\ fragments = (IF query = << >> THEN 0 ELSE 1)
  /\ classified = classifyQuery(query)
  /\ knowledgeBase = LoadedKnowledge
  /\ promptCategories = getContextualKnowledge(query).categories
  /\ prompt = getContextualKnowledge(query).prompt
  /\ apiKeyConfigured = TRUE
  /\ InitSessions
  /\ scores = getQueryScores(query)

NextScores == \E f \in Fragments : ScoreAppended(f)

SpecScores == InitScores /\ [][NextScores]_vars

\* The assembler on every short category list, over knowledge records of
\* every kind.
InitPrompt ==
  /\ query = << >>
  /\ fragments = 0
  /\ classified = classifyQuery(query)
  /\ apiKeyConfigured = TRUE
  /\ InitSessions
  /\ scores = NotScored
  /\ knowledgeBase \in
       { kb \in [ Range(Categories) ->
                    UNION { KnowledgeRecords(c) : c \in Range(Categories) } ] :
           \A c \in Range(Categories) : kb[c] \in KnowledgeRecords(c) }
  /\ promptCategories = << >>
  /\ prompt = generateContextPrompt(promptCategories,
                                    getRelevantData(promptCategories))

NextPrompt ==
  \E category \in Range(Categories) :
     /\ Len(promptCategories) < MaxCategories
     /\ GenerateWith(category)

SpecPrompt == InitPrompt /\ [][NextPrompt]_vars

(***************************************************************************)
(* Properties of the classifier, checked under SpecClassifier.             *)
(***************************************************************************)

\* Each lower-case letter with its upper-case form.
Capital ==
  [ k \in Range(LowerCase) |->
      UpperCase[CHOOSE n \in DOMAIN LowerCase : LowerCase[n] = k] ]

\* c is the letter k (a lower-case keyword letter) in either case.
SameLetter(c, k) == c = k \/ (k \in DOMAIN Capital /\ Capital[k] = c)

\* keyword occurs in q at some position, letter by letter, ignoring case.
OccursIgnoringCase(q, keyword) ==
  \E i \in 1..(Len(q) - Len(keyword) + 1) :
     \A j \in 1..Len(keyword) : SameLetter(q[i + j - 1], keyword[j])

\* The categories one of whose keywords occurs in q, ignoring case.
MatchedCategories(q) ==
  { c \in Range(Categories) :
      \E k \in Range(keywords(c)) : OccursIgnoringCase(q, k) }

\* C1: a category one of whose keywords occurs in the query, in whatever
\* letter case, is in the result of classifyQuery.
C1_KeywordSelectsCategory ==
  \A c \in MatchedCategories(query) : c \in Range(classified)

\* "Tu" and "ition" typed one after the other: the keyword occurs across the
\* fragments and only when case is ignored, and its category was returned.
C1_Witness ==
  /\ query = << "T", "u", "i", "t", "i", "o", "n" >>
  /\ ~includes(query, << "t", "u", "i", "t", "i", "o", "n" >>)
  /\ fragments = 2
  /\ "tuitions" \in Range(classified)

\* C2: a query in which no keyword of any category occurs is classified as
\* exactly the default pair, contacts and faculties.
C2_NoMatchGivesDefaultPair ==
  MatchedCategories(query) = {} =>
     classified = << "contacts", "faculties" >>

\* The garbage query "asdkjasd" with a question mark appended, classified as
\* the default pair.
C2_Witness ==
  /\ query = << "a", "s", "d", "k", "j", "a", "s", "d", "?" >>
  /\ MatchedCategories(query) = {}
  /\ classified = << "contacts", "faculties" >>

\* C3: the result of classifyQuery is never empty, holds no category twice
\* and holds only the four categories.
C3_ResultNonEmptyDistinctClosed ==
  /\ Len(classified) > 0
  /\ \A i, j \in DOMAIN classified : i # j => classified[i] # classified[j]
  /\ Range(classified)
       \subseteq { "contacts", "faculties", "history", "tuitions" }

\* A query of several fragments that matches all four categories.
C3_Witness ==
  /\ fragments > 1
  /\ Len(classified) = 4

\* C4: when some keyword occurs in the query, the result holds exactly the
\* categories with an occurring keyword, each once, and no default is added.
C4_ExactlyTheMatchedCategories ==
  LET matched == MatchedCategories(query)
  IN  matched # {} =>
         /\ Range(classified) = matched
         /\ Len(classified) = Cardinality(matched)

\* "How much is tuition?" is classified as tuitions alone.
C4_Witness ==
  /\ query = << "H", "o", "w", " ", "m", "u", "c", "h", " ", "i", "s", " ",
                "t", "u", "i", "t", "i", "o", "n", "?" >>
  /\ classified = << "tuitions" >>

(***************************************************************************)
(* Properties of one conversation, checked under SpecConversation.         *)
(***************************************************************************)

\* The conversation objects constructed so far.
Clients == DOMAIN conversationHistory

\* C5: a conversation history never holds more than 2 x maxExchanges + 1 = 11
\* messages, and its element 0 is always the system instruction.
C5_HistoryBoundedSystemFirst ==
  LET maxExchanges == 5
  IN  \A c \in Clients :
         /\ Len(conversationHistory[c]) >= 1
         /\ Len(conversationHistory[c]) <= 2 * maxExchanges + 1
         /\ conversationHistory[c][1] =
              [ role |-> "model", text |-> SYSTEM_PROMPT ]

\* The texts of the user messages of a history, in order.
UserTexts(history) ==
  [ i \in 1..((Len(history) - 1) \div 2) |-> history[2 * i].text ]

\* The sixth request is still awaiting the model with a context that starts
\* with the system instruction and the first request's message; since then
\* the seventh exchange was appended to the full history, which still starts
\* with the system instruction and has lost the first exchange.
C5_Witness ==
  \E c \in Clients : \E r \in inflight :
     /\ r.client = c
     /\ r.message = "m6"
     /\ r.context[2].text = "m1"
     /\ Len(conversationHistory[c]) = 11
     /\ conversationHistory[c][1].text = SYSTEM_PROMPT
     /\ UserTexts(conversationHistory[c]) = << "m2", "m3", "m4", "m5", "m7" >>

\* The last n elements of a sequence of more than n elements.
LastN(a, n) == [ i \in 1..n |-> a[Len(a) - n + i] ]

\* C6: when the exchange a model reply appends takes the history past 11
\* messages, the new history is the system instruction followed by the 10
\* most recent messages in order, the appended exchange last.
C6_TrimKeepsMostRecent ==
  [][ \A r \in inflight \ inflight' :
        LET before   == conversationHistory[r.client]
            after    == conversationHistory'[r.client]
            appended == before \o << [ role |-> "user", text |-> r.message ],
                                     [ role |-> "model", text |-> response'.text ] >>
        IN  (response'.text # APOLOGY /\ Len(appended) > 11) =>
               /\ Len(after) = 11
               /\ after[1] = before[1]
               /\ after[1].text = SYSTEM_PROMPT
               /\ SubSeq(after, 2, 11) = LastN(appended, 10)
               /\ after[10].text = r.message
               /\ after[11].text = response'.text
    ]_vars

\* The seventh request was sent while the history held the first five
\* exchanges and is still awaiting the model; the sixth exchange has since
\* been appended, and the history holds the second to the sixth exchange in
\* order, the sixth last.
C6_Witness ==
  \E c \in Clients : \E r \in inflight :
     /\ r.client = c
     /\ r.message = "m7"
     /\ Len(r.context) = 12
     /\ r.context[2].text = "m1"
     /\ Len(conversationHistory[c]) = 11
     /\ UserTexts(conversationHistory[c]) = << "m2", "m3", "m4", "m5", "m6" >>
     /\ conversationHistory[c][11] = [ role |-> "model", text |-> "r1" ]

(***************************************************************************)
(* Properties of the session registry, checked under Spec.                 *)
(***************************************************************************)

\* The session id a DELETE or POST body names, when it names one.
NamesSession(body) == body.parses /\ truthy(body.sessionId)

\* C7: a DELETE naming a registered session id leaves that session's history
\* as exactly the system instruction, keeps the registry as it was and
\* answers with success.
C7_ResetRestoresSystemHistory ==
  [][ \A body \in DeleteBodies :
        ( /\ DELETE(body)
          /\ NamesSession(body)
          /\ body.sessionId.value \in DOMAIN conversationSessions ) =>
        LET id == body.sessionId.value
        IN  /\ conversationSessions' = conversationSessions
            /\ sessionTimestamps' = sessionTimestamps
            /\ id \in DOMAIN conversationSessions'
            /\ conversationHistory'[conversationSessions'[id]] =
                 << [ role |-> "model", text |-> SYSTEM_PROMPT ] >>
            /\ response'.handler = "DELETE"
            /\ response'.status = 200
            /\ response'.sessionId = id
    ]_vars

\* A request of session s1 was sent with a context of four messages (the
\* history held one exchange) and is still awaiting the model; the session
\* was then reset: its history is the system instruction alone.
C7_Witness ==
  /\ response.handler = "DELETE"
  /\ response.status = 200
  /\ response.sessionId = "s1"
  /\ "s1" \in DOMAIN conversationSessions
  /\ Len(conversationHistory[conversationSessions["s1"]]) = 1
  /\ \E r \in inflight :
        /\ r.client = conversationSessions["s1"]
        /\ Len(r.context) = 4

\* C8: a DELETE whose body names no session id, or one that is not
\* registered, answers 404 and changes neither map nor any history.
C8_ResetUnknownIsNotFound ==
  [][ \A body \in DeleteBodies :
        ( /\ DELETE(body)
          /\ body.parses
          /\ ~( /\ truthy(body.sessionId)
                /\ body.sessionId.value \in DOMAIN conversationSessions ) ) =>
        /\ response'.handler = "DELETE"
        /\ response'.status = 404
        /\ conversationSessions' = conversationSessions
        /\ sessionTimestamps' = sessionTimestamps
        /\ conversationHistory' = conversationHistory
    ]_vars

\* Session s1 was evicted while session_1 is registered with an exchange in
\* its history; the last DELETE was answered 404 and session_1 is as it was.
C8_Witness ==
  /\ response.handler = "DELETE"
  /\ response.status = 404
  /\ DOMAIN conversationSessions = { "session_1" }
  /\ DOMAIN sessionTimestamps = { "session_1" }
  /\ Len(conversationHistory) = 2
  /\ Len(conversationHistory[conversationSessions["session_1"]]) = 3

\* A POST body that passes the handler's checks.
Accepted(body) ==
  /\ body.parses
  /\ body.message.type = "string"
  /\ body.message.value # ""
  /\ apiKeyConfigured

\* C9: getOrCreateSession, as POST calls it.  When the id is not registered
\* at the lookup (it never was, or the scan of this very call has just
\* evicted it), a new conversation with history [system instruction] is
\* registered under it; when it is registered, the same object is returned
\* with its history untouched.  Either way last-activity becomes now and the
\* id is registered after the call.
C9_GetOrCreateLifecycle ==
  [][ \A body \in PostBodies, scan \in BOOLEAN, generated \in GeneratedIds :
        ( /\ Accepted(body)
          /\ requests' = requests + 1
          /\ POST(body, scan, generated) ) =>
        LET id == IF truthy(body.sessionId) THEN body.sessionId.value
                  ELSE generated
            registered ==
              /\ id \in DOMAIN conversationSessions
              /\ ~(scan /\ now - sessionTimestamps[id] > SESSION_TIMEOUT)
        IN  \E r \in inflight' \ inflight :
              /\ r.sessionId = id
              /\ id \in DOMAIN conversationSessions'
              /\ conversationSessions'[id] = r.client
              /\ id \in DOMAIN sessionTimestamps'
              /\ sessionTimestamps'[id] = now
              /\ IF registered
                 THEN /\ r.client = conversationSessions[id]
                      /\ conversationHistory'[r.client] =
                           conversationHistory[r.client]
                 ELSE /\ r.client \notin DOMAIN conversationHistory
                      /\ conversationHistory'[r.client] =
                           << [ role |-> "model", text |-> SYSTEM_PROMPT ] >>
    ]_vars

\* The second request of a session got the object the first one created,
\* with the first exchange in its history, after the clock had advanced.
C9_Witness ==
  \E r \in inflight :
     /\ r.request = 2
     /\ r.client = 1
     /\ Len(conversationHistory) = 1
     /\ conversationSessions[r.sessionId] = 1
     /\ Len(conversationHistory[1]) = 3
     /\ Len(r.context) = 4
     /\ now > 0
     /\ sessionTimestamps[r.sessionId] = now

\* The session registered under id before a step is no longer registered
\* after it (the id is absent, or names another object).
Evicted(id) ==
  \/ id \notin DOMAIN conversationSessions'
  \/ conversationSessions'[id] # conversationSessions[id]

\* C10: a step that runs the scan evicts every session idle for more than
\* the timeout, and a session is evicted only by a step that runs the scan
\* and only when it was idle for more than the timeout.
C10_ScanEvictsExactlyTheExpired ==
  [][ \A id \in DOMAIN conversationSessions :
        LET idle == now - sessionTimestamps[id]
        IN  /\ (scanned' /\ idle > 30 * 60 * 1000) => Evicted(id)
            /\ Evicted(id) => (scanned' /\ idle > 30 * 60 * 1000)
    ]_vars

\* A scan has just run one millisecond past the timeout of the only other
\* session: two conversations were created and only the requester's is
\* registered.
C10_Witness ==
  /\ scanned
  /\ now = 30 * 60 * 1000 + 1
  /\ Len(conversationHistory) = 2
  /\ Cardinality(DOMAIN conversationSessions) = 1
  /\ \A id \in DOMAIN sessionTimestamps : sessionTimestamps[id] = now

(***************************************************************************)
(* Eviction as an operation on the registry, checked under Spec.           *)
(***************************************************************************)

\* C11: eviction is idempotent.  Removing an id that is not registered
\* leaves a map as it is, and the scan applied to its own result at the same
\* clock changes nothing more, both on the registry as it stands and on the
\* registry a request's scan has just left.
C11_EvictionIdempotent ==
  LET once  == cleanupOldSessions(conversationSessions, sessionTimestamps, now)
      twice == cleanupOldSessions(once.sessions, once.timestamps, now)
  IN  /\ twice = once
      /\ \A id \in (SessionIds \cup GeneratedIds) \ DOMAIN conversationSessions :
           /\ Restrict(conversationSessions,
                       DOMAIN conversationSessions \ { id }) =
                conversationSessions
           /\ Restrict(sessionTimestamps,
                       DOMAIN sessionTimestamps \ { id }) = sessionTimestamps
      /\ scanned =>
           once = [ sessions   |-> conversationSessions,
                    timestamps |-> sessionTimestamps ]

\* Two sessions created at time 0 are both idle for more than the timeout:
\* the scan has two entries to remove, and a second scan none.
C11_Witness ==
  /\ now = SESSION_TIMEOUT + 1
  /\ Cardinality(DOMAIN conversationSessions) = 2
  /\ \A id \in DOMAIN sessionTimestamps : sessionTimestamps[id] = 0
  /\ cleanupOldSessions(conversationSessions, sessionTimestamps, now).sessions
       = EmptyMap

\* C12: eviction is best-effort.  A step that runs no scan removes no
\* session, however long it has been idle; and a request that names a
\* session idle for more than the timeout, with no scan in its call, gets the
\* object registered under the id, with its history as it was and sent in
\* full as the context of the model call, and sets last-activity to the
\* current time, so that a scan at that time would keep the session.
C12_BestEffortEviction ==
  [][ /\ ~scanned' =>
           \A id \in DOMAIN conversationSessions :
              /\ id \in DOMAIN conversationSessions'
              /\ conversationSessions'[id] = conversationSessions[id]
      /\ \A body \in PostBodies, generated \in GeneratedIds :
           ( /\ Accepted(body)
             /\ truthy(body.sessionId)
             /\ body.sessionId.value \in DOMAIN conversationSessions
             /\ now - sessionTimestamps[body.sessionId.value] > SESSION_TIMEOUT
             /\ requests' = requests + 1
             /\ POST(body, FALSE, generated) ) =>
           LET id == body.sessionId.value
           IN  \E r \in inflight' \ inflight :
                 /\ r.client = conversationSessions[id]
                 /\ conversationSessions'[id] = r.client
                 /\ conversationHistory'[r.client] =
                      conversationHistory[r.client]
                 /\ r.context =
                      Append(conversationHistory[r.client],
                             [ role |-> "user", text |-> body.message.value ])
                 /\ sessionTimestamps'[id] = now
                 /\ ~(now - sessionTimestamps'[id] > SESSION_TIMEOUT)
    ]_vars

\* One millisecond past its timeout and with no scan, the second request of
\* a session is in flight on the first object, the first exchange in its
\* context.
C12_Witness ==
  /\ ~scanned
  /\ now = SESSION_TIMEOUT + 1
  /\ \E r \in inflight :
        /\ r.request = 2
        /\ r.client = 1
        /\ Len(conversationHistory[1]) = 3
        /\ r.context = Append(conversationHistory[1],
                              [ role |-> "user", text |-> r.message ])
        /\ sessionTimestamps[r.sessionId] = now

(***************************************************************************)
(* Properties of the prompt assembler, checked under SpecPrompt (C16:      *)
(* under SpecClassifier).                                                  *)
(***************************************************************************)

\* The title line of a category's section.
SectionTitle(category) ==
  [ kind |-> "literal",
    text |-> CASE category = "contacts"  -> "CONTACT INFORMATION:"
               [] category = "faculties" -> "ACADEMIC PROGRAMS:"
               [] category = "tuitions"  -> "TUITION FEES (THB):"
               [] category = "history"   -> "UNIVERSITY HISTORY:" ]

HasSection(p, category) == \E i \in DOMAIN p : p[i] = SectionTitle(category)

\* Where the section starts, and that it occurs once.
PositionOf(p, category) == CHOOSE i \in DOMAIN p : p[i] = SectionTitle(category)

SectionsOf(p) == { c \in Range(Categories) : HasSection(p, c) }

EndsWith(p, block) ==
  /\ Len(p) >= Len(block)
  /\ SubSeq(p, Len(p) - Len(block) + 1, Len(p)) = block

\* C13: whatever the category list (the empty one included) and whatever the
\* knowledge records, the prompt starts with the instruction preamble and
\* ends with the closing instruction block, each verbatim and each once.
C13_PreambleFirstClosingLast ==
  /\ Len(prompt) >= Len(PREAMBLE) + Len(CLOSING)
  /\ SubSeq(prompt, 1, Len(PREAMBLE)) = PREAMBLE
  /\ EndsWith(prompt, CLOSING)
  /\ Cardinality({ i \in DOMAIN prompt : prompt[i] = CLOSING[1] }) = 1
  /\ Cardinality({ i \in DOMAIN prompt : prompt[i] = PREAMBLE[1] }) = 1

\* Three categories were asked for and none has a record that renders: the
\* prompt is the preamble and the closing block.
C13_Witness ==
  /\ Len(promptCategories) = 3
  /\ Cardinality(Range(promptCategories)) = 3
  /\ prompt = PREAMBLE \o CLOSING
  /\ \E c \in Range(promptCategories) : knowledgeBase[c].throws

\* The entries of S in the declaration order of the categories.
CanonicalList(S) ==
  LET in(c) == c \in S
  IN  SelectSeq(Categories, in)

\* C14: the prompt depends on the category list only through the set of its
\* entries: it is the prompt of the list that has each entry once, in
\* declaration order, so two lists of the same set give equal prompts.
C14_SameSetSamePrompt ==
  LET canonical == CanonicalList(Range(promptCategories))
  IN  prompt = generateContextPrompt(canonical, getRelevantData(canonical))

\* A list out of order and with a repeated entry, both sections rendered.
C14_Witness ==
  /\ promptCategories = << "tuitions", "contacts", "tuitions" >>
  /\ SectionsOf(prompt) = { "contacts", "tuitions" }

\* a's section comes before b's section whenever the prompt has both.
Before(a, b) ==
  (HasSection(prompt, a) /\ HasSection(prompt, b)) =>
     PositionOf(prompt, a) < PositionOf(prompt, b)

\* C15, as stated: sections are in the order contacts, faculties, history,
\* tuitions.
C15_SectionsInEnumerationOrder ==
  /\ Before("contacts", "faculties")
  /\ Before("faculties", "history")
  /\ Before("contacts", "history")
  /\ Before("history", "tuitions")
  /\ Before("faculties", "tuitions")
  /\ Before("contacts", "tuitions")

\* C15, amended: sections are in the order of the code's if statements,
\* contacts, faculties, tuitions, history, each at most once.
C15_SectionsInCodeOrder ==
  /\ Before("contacts", "faculties")
  /\ Before("faculties", "tuitions")
  /\ Before("contacts", "tuitions")
  /\ Before("tuitions", "history")
  /\ Before("faculties", "history")
  /\ Before("contacts", "history")
  /\ \A c \in Range(Categories) :
        Cardinality({ i \in DOMAIN prompt : prompt[i] = SectionTitle(c) }) <= 1

\* History was asked for before tuitions, and the prompt has the tuition
\* section first.
C15_Witness ==
  /\ promptCategories = << "history", "tuitions", "contacts" >>
  /\ SectionsOf(prompt) = { "contacts", "history", "tuitions" }
  /\ PositionOf(prompt, "tuitions") < PositionOf(prompt, "history")

\* C16: getContextualKnowledge returns the categories classifyQuery gives
\* for the query, and with every record loaded its prompt has the section
\* of a category exactly when the category is among them; for a query that
\* matches no keyword these are the contact and the academic programs
\* sections (the sections are those two, or the query matches a keyword).
C16_SectionsAreTheClassifiedCategories ==
  /\ promptCategories = classifyQuery(query)
  /\ SectionsOf(prompt) = Range(classifyQuery(query))
  /\ \/ SectionsOf(prompt) = { "contacts", "faculties" }
     \/ MatchedCategories(query) # {}

\* A message of two fragments that matches nothing has been given its
\* prompt: the two default sections and no other.
C16_Witness ==
  /\ fragments = 2
  /\ query = << "a", "s", "d", "k", "j", "a", "s", "d", "?" >>
  /\ HasSection(prompt, "contacts")
  /\ HasSection(prompt, "faculties")
  /\ ~HasSection(prompt, "tuitions")
  /\ ~HasSection(prompt, "history")

\* The fields each section reads, with the fallback the code gives each and
\* whether the value goes through toLocaleString.
FallbackTable ==
  { << "contacts", "contacts.main_website", "au.edu", FALSE >>,
    << "contacts", "contacts.campuses[0].address", "Bangkok", FALSE >>,
    << "contacts", "contacts.campuses[0].phone", "+66 2 719 1919", FALSE >>,
    << "contacts", "contacts.campuses[1].address", "Samutprakarn", FALSE >>,
    << "contacts", "contacts.campuses[1].phone", "+66 2 723 2323", FALSE >>,
    << "faculties", "faculties.faculties.undergraduate[].name",
       "Business, Engineering, Computer Science, Arts", FALSE >>,
    << "tuitions", "tuitions.tuition_fees_thb.undergraduate.domestic_students.annual_fee_range.min", "112000", TRUE >>,
    << "tuitions", "tuitions.tuition_fees_thb.undergraduate.domestic_students.annual_fee_range.max", "350000", TRUE >>,
    << "tuitions", "tuitions.tuition_fees_thb.graduate.masters_programs.annual_fee_range.min", "200000", TRUE >>,
    << "tuitions", "tuitions.tuition_fees_thb.graduate.mba_programs.total_fee_range.max", "550000", TRUE >>,
    << "tuitions", "tuitions.tuition_fees_thb.undergraduate.domestic_students.additional_fees.matriculation_fee", "23500", TRUE >>,
    << "tuitions", "tuitions.tuition_fees_thb.undergraduate.domestic_students.additional_fees.health_insurance", "3650", TRUE >>,
    << "history", "history.history.origins.registration_year", "1938", FALSE >>,
    << "history", "history.history.origins.original_institution",
       "Assumption Commercial College", FALSE >>,
    << "history", "history.history.origins.notable_dates[year=1990].event",
       "Granted full university status", FALSE >>,
    << "history", "history.history.origins.founder", "Brothers of St. Gabriel", FALSE >>,
    << "history", "history.history.origins.student_body.total_students", "100000", TRUE >>,
    << "history", "history.history.origins.student_body.international_students",
       "over 100 countries", FALSE >>,
    << "history", "history.history.origins.philosophy",
       "Open, international community with moral integrity", FALSE >> }

\* The piece a field contributes when its value is used, and when its
\* fallback is.
ValuePiece(f) ==
  [ kind |-> IF f[4] THEN "toLocaleString(field)" ELSE "field", text |-> f[2] ]

FallbackPiece(f) ==
  [ kind |-> IF f[4] THEN "toLocaleString(literal)" ELSE "literal",
    text |-> f[3] ]

\* C17: rendering failures stay inside the section.  For each category of
\* the list whose record is there: when reading the record throws, its
\* section is left out; otherwise the section is there, with the fallback in
\* place of each absent field and the value of each present one.  Whatever
\* happens to one section, the others are rendered and the closing block
\* ends the prompt.
C17_FailuresStayInTheSection ==
  /\ EndsWith(prompt, CLOSING)
  /\ \A c \in Range(Categories) :
       LET record == knowledgeBase[c]
       IN  IF c \in Range(promptCategories) /\ record.truthy /\ ~record.throws
           THEN /\ HasSection(prompt, c)
                /\ \A f \in FallbackTable :
                     f[1] = c =>
                       IF f[2] \in record.falsy
                       THEN /\ FallbackPiece(f) \in Range(prompt)
                            /\ ValuePiece(f) \notin Range(prompt)
                       ELSE /\ ValuePiece(f) \in Range(prompt)
                            /\ FallbackPiece(f) \notin Range(prompt)
           ELSE ~HasSection(prompt, c)

\* Reading the contacts record throws and the tuition record lacks fields:
\* the prompt has no contact section, a tuition section with fallbacks, and
\* the history section.
C17_Witness ==
  /\ Range(promptCategories) = { "contacts", "tuitions", "history" }
  /\ knowledgeBase["contacts"].throws
  /\ knowledgeBase["tuitions"].falsy # {}
  /\ SectionsOf(prompt) = { "tuitions", "history" }
  /\ [ kind |-> "toLocaleString(literal)", text |-> "350000" ] \in Range(prompt)

(***************************************************************************)
(* Properties of the session route's responses and ids, checked under      *)
(* Spec.                                                                   *)
(***************************************************************************)

\* C18: every request is answered.  A POST whose body does not pass the
\* checks is answered at once with 400 or 500; one that passes waits for the
\* model, and whether the model call resolves or rejects the request is
\* answered with 200 and a non-empty reply, the apology when it rejects;
\* DELETE is answered with 200, 404 or 500.  No step of a handler ends
\* without either a response or a call in flight.
C18_EveryRequestIsAnswered ==
  [][ /\ (now' = now /\ inflight' \subseteq inflight) =>
           /\ response'.status \in { 200, 400, 404, 500 }
           /\ response'.text # ""
      /\ \A body \in PostBodies, scan \in BOOLEAN, generated \in GeneratedIds :
           POST(body, scan, generated) =>
             IF Accepted(body)
             THEN \E r \in inflight' \ inflight :
                    /\ r.message = body.message.value
                    /\ inflight' = inflight \cup { r }
             ELSE /\ inflight' = inflight
                  /\ response'.handler = "POST"
                  /\ response'.status \in { 400, 500 }
      /\ \A r \in inflight :
           /\ ModelFails(r) =>
                /\ response'.status = 200
                /\ response'.handler = "POST"
                /\ response'.text =
                     "I apologize, but I'm having trouble processing your request right now. Please try again or contact AU directly at +66 2 719 1919."
                /\ r \notin inflight'
           /\ \A text \in Replies :
                ModelReplies(r, text) =>
                  /\ response'.status = 200
                  /\ response'.handler = "POST"
                  /\ response'.text # ""
                  /\ r \notin inflight'
      /\ \A body \in DeleteBodies :
           DELETE(body) =>
             /\ response'.handler = "DELETE"
             /\ response'.status \in { 200, 404, 500 }
    ]_vars

\* The model call of the second request has failed: the request was answered
\* with 200 and the apology, and no call is left waiting.
C18_Witness ==
  /\ requests = 2
  /\ inflight = {}
  /\ response.handler = "POST"
  /\ response.status = 200
  /\ response.text = APOLOGY
  /\ response.messageCount = 3

\* C19: the session of a request is the one registered under the id its
\* body carries, and the response carries that id; a request without an id
\* is given a generated one, and when that id is new (the registry has no
\* entry for it) a new conversation is registered under it, the response
\* carries it, and no conversation that existed is touched.
C19_SessionKeyedBySuppliedOrGeneratedId ==
  [][ /\ \A body \in PostBodies, scan \in BOOLEAN, generated \in GeneratedIds :
           ( /\ Accepted(body)
             /\ requests' = requests + 1
             /\ POST(body, scan, generated) ) =>
             \E r \in inflight' \ inflight :
                /\ conversationSessions'[r.sessionId] = r.client
                /\ IF truthy(body.sessionId)
                   THEN r.sessionId = body.sessionId.value
                   ELSE /\ r.sessionId = generated
                        /\ generated \notin DOMAIN conversationSessions =>
                             /\ r.client \notin DOMAIN conversationHistory
                             /\ conversationHistory'[r.client] =
                                  << [ role |-> "model", text |-> SYSTEM_PROMPT ] >>
                             /\ \A c \in DOMAIN conversationHistory :
                                   conversationHistory'[c] =
                                     conversationHistory[c]
                             /\ \A id \in DOMAIN conversationSessions :
                                   scan \/ conversationSessions'[id] =
                                             conversationSessions[id]
      /\ \A r \in inflight :
           ( \/ ModelFails(r)
             \/ \E text \in Replies : ModelReplies(r, text) ) =>
             response'.sessionId = r.sessionId
    ]_vars

\* A request without an id is in flight on a second conversation, registered
\* under the generated id, while the first session keeps its exchange.
C19_Witness ==
  \E r \in inflight :
     /\ r.request = 2
     /\ r.sessionId = "session_1"
     /\ r.client = 2
     /\ "s1" \in DOMAIN conversationSessions
     /\ conversationSessions["s1"] = 1
     /\ conversationSessions["session_1"] = 2
     /\ Len(conversationHistory[1]) = 3
     /\ Len(conversationHistory[2]) = 1

(***************************************************************************)
(* Monotonicity of the classifier, checked under SpecClassifier.           *)
(***************************************************************************)

\* q occurs in q2 as a contiguous substring, letter case as written.
Contains(q2, q) ==
  \E i \in 0..(Len(q2) - Len(q)) :
     \A j \in 1..Len(q) : q2[i + j] = q[j]

\* C20, as stated: a query that contains the previous one is classified
\* into every category the previous one was.
C20_AddingTextNeverRemovesACategory ==
  [][ Contains(query', query) =>
        Range(classified) \subseteq Range(classified') ]_vars

\* C20, amended: a query that contains the previous one is classified into
\* every category the previous one was, unless the previous one matches no
\* keyword (and so has the default pair, which only a query without a match
\* is given).
C20_AddingTextKeepsMatchedCategories ==
  [][ Contains(query', query) =>
        \/ Range(classified) \subseteq Range(classified')
        \/ MatchedCategories(query) = {} ]_vars

\* "tuition" with "History" put before it: the tuition category stayed and
\* history came in.
C20_Witness ==
  /\ fragments = 2
  /\ query = << "H", "i", "s", "t", "o", "r", "y",
                "t", "u", "i", "t", "i", "o", "n" >>
  /\ classified = << "history", "tuitions" >>

(***************************************************************************)
(* Properties of the scores, checked under SpecScores.                     *)
(***************************************************************************)

\* How many keywords of the category occur in q, ignoring case.
MatchedKeywords(q, category) ==
  Cardinality({ k \in DOMAIN keywords(category) :
                  OccursIgnoringCase(q, keywords(category)[k]) })

\* C21: the score of each of the four categories is the number of its
\* keywords that occur in the query, over the number of its keywords, hence
\* between 0 and 1; it is positive exactly when the category has a matching
\* keyword, so the categories with a positive score are all in the result
\* of classifyQuery, which is the default pair when every score is 0.
C21_ScoresCountMatchedKeywords ==
  LET positive == { c \in DOMAIN scores : scores[c].matchCount > 0 }
  IN  /\ DOMAIN scores = { "contacts", "faculties", "history", "tuitions" }
      /\ \A c \in DOMAIN scores :
           /\ scores[c].length = Len(keywords(c))
           /\ scores[c].length > 0
           /\ scores[c].matchCount = MatchedKeywords(query, c)
           /\ 0 <= scores[c].matchCount
           /\ scores[c].matchCount <= scores[c].length
      /\ positive \subseteq Range(classified)
      /\ positive # {} => Range(classified) = positive
      /\ positive = {} => classified = << "contacts", "faculties" >>

\* "School fee" after "History": one faculties keyword, one history keyword
\* and one tuition keyword are counted, none of contacts.
C21_Witness ==
  /\ fragments = 2
  /\ query = << "H", "i", "s", "t", "o", "r", "y",
                "S", "c", "h", "o", "o", "l", " ", "f", "e", "e" >>
  /\ scores["contacts"].matchCount = 0
  /\ scores["faculties"].matchCount = 1
  /\ scores["history"].matchCount = 1
  /\ scores["tuitions"].matchCount = 1
  /\ scores["tuitions"].length = 15

(***************************************************************************)
(* Overlapping requests on one conversation, checked under                 *)
(* SpecConversation, where every request has a message text of its own.    *)
(***************************************************************************)

\* The part of a request's context that was read from the stored history.
Snapshot(r) == SubSeq(r.context, 1, Len(r.context) - 1)

C23_ExchangesAreAppendedWhole ==
  [][ /\ \A r \in inflight \ inflight' :
           response'.text # APOLOGY =>
              LET before == conversationHistory[r.client]
                  after  == conversationHistory'[r.client]
                  n      == Len(after)
              IN  /\ n >= 3
                  /\ n <= 11
                  /\ after[n - 1] = [ role |-> "user", text |-> r.message ]
                  /\ after[n] = [ role |-> "model", text |-> response'.text ]
                  /\ SubSeq(after, 2, n - 2) = LastN(before, n - 3)
                  /\ \A c \in DOMAIN conversationHistory \ { r.client } :
                        conversationHistory'[c] = conversationHistory[c]
      /\ (inflight \ inflight' = {} \/ response'.text = APOLOGY) =>
           \A c \in DOMAIN conversationHistory :
              \/ conversationHistory'[c] = conversationHistory[c]
              \/ conversationHistory'[c] =
                   << [ role |-> "model", text |-> SYSTEM_PROMPT ] >>
      /\ \A c \in DOMAIN conversationHistory' :
           Len(conversationHistory'[c]) <= 11
    ]_vars

\* Two requests overlapped and were answered in the opposite order: the
\* history has the second one's exchange, then the first one's, each whole.
C23_Witness ==
  /\ inflight = {}
  /\ requests = 2
  /\ \E c \in Clients :
        conversationHistory[c] =
          << [ role |-> "model", text |-> SYSTEM_PROMPT ],
             [ role |-> "user", text |-> "m2" ],
             [ role |-> "model", text |-> "r1" ],
             [ role |-> "user", text |-> "m1" ],
             [ role |-> "model", text |-> "r1" ] >>

\* C24: a history has an odd number of messages: the system instruction,
\* tagged model, then user and model messages in turn, so that a history of
\* more than one message has a user message second and a model reply last.
C24_HistoryAlternates ==
  \A c \in Clients :
     LET history == conversationHistory[c]
     IN  /\ Len(history) % 2 = 1
         /\ history[1].role = "model"
         /\ \A i \in 2..Len(history) :
               history[i].role = (IF i % 2 = 0 THEN "user" ELSE "model")
         /\ Len(history) > 1 =>
               /\ history[2].role = "user"
               /\ history[Len(history)].role = "model"

\* Seven exchanges were appended one after the other and two were trimmed
\* away: the history starts with the third request's message.
C24_Witness ==
  /\ inflight = {}
  /\ \E c \in Clients :
        /\ Len(conversationHistory[c]) = 11
        /\ UserTexts(conversationHistory[c]) = << "m3", "m4", "m5", "m6", "m7" >>
        /\ conversationHistory[c][11].role = "model"

\* C25: when the model call of a request fails the request is answered with
\* the apology, and no history changes: neither the user message nor the
\* apology is appended.
C25_FailedCallLeavesHistory ==
  [][ \A r \in inflight :
        ModelFails(r) =>
           /\ inflight' = inflight \ { r }
           /\ response'.text =
                "I apologize, but I'm having trouble processing your request right now. Please try again or contact AU directly at +66 2 719 1919."
           /\ response'.status = 200
           /\ conversationHistory' = conversationHistory
           /\ [ role |-> "user", text |-> r.message ] \notin
                Range(conversationHistory'[r.client])
           /\ response'.messageCount = Len(conversationHistory[r.client])
    ]_vars

\* The second request failed after the third, which overlapped it, had been
\* answered: the history has the first and the third exchange only.
C25_Witness ==
  /\ inflight = {}
  /\ requests = 3
  /\ response.text = APOLOGY
  /\ \E c \in Clients :
        UserTexts(conversationHistory[c]) = << "m1", "m3" >>

(***************************************************************************)
(* A reset while a request of the session awaits the model, checked under  *)
(* SpecConversation.                                                       *)
(***************************************************************************)

\* C26: a request that was awaiting the model when its session was reset
\* does not add its exchange to the reset history.  The request is one whose
\* context holds an earlier exchange while the stored history is the system
\* instruction alone (so the reset ran after the context was built); when
\* its reply arrives the history is still the system instruction alone.
C26_ResetHistoryStaysClear ==
  [][ \A r \in inflight \ inflight' :
        ( /\ Len(r.context) > 2
          /\ conversationHistory[r.client] =
               << [ role |-> "model", text |-> SYSTEM_PROMPT ] >>
          /\ response'.text # APOLOGY ) =>
        conversationHistory'[r.client] =
          << [ role |-> "model", text |-> SYSTEM_PROMPT ] >>
    ]_vars

(***************************************************************************)
(* The two maps of the registry, checked under Spec.                       *)
(***************************************************************************)

\* C27: the conversation map and the last-activity map have the same keys.
C27_MapsHaveTheSameKeys ==
  DOMAIN conversationSessions = DOMAIN sessionTimestamps

\* Two sessions were created, a scan evicted the first and the second was
\* then reset: both maps hold the second session only.
C27_Witness ==
  /\ response.handler = "DELETE"
  /\ response.status = 200
  /\ response.sessionId = "session_1"
  /\ now > SESSION_TIMEOUT
  /\ Len(conversationHistory) = 2
  /\ DOMAIN conversationSessions = { "session_1" }
  /\ DOMAIN sessionTimestamps = { "session_1" }

\* C28: a request whose call of getOrCreateSession runs the scan while its
\* own session has been idle for more than the timeout is served by a new
\* conversation: the session's id is registered to an object that did not
\* exist, whose history is the system instruction alone, the context of the
\* request is that instruction and its message, and the object that held
\* the earlier history is registered under no id.  No step registers an
\* object that existed and was not registered.
C28_ExpiredRequesterStartsAfresh ==
  [][ /\ \A body \in PostBodies, generated \in GeneratedIds :
           LET id == IF truthy(body.sessionId)
                     THEN body.sessionId.value ELSE generated
           IN  ( /\ Accepted(body)
                 /\ id \in DOMAIN conversationSessions
                 /\ now - sessionTimestamps[id] > 30 * 60 * 1000
                 /\ POST(body, TRUE, generated) ) =>
               LET old   == conversationSessions[id]
                   fresh == conversationSessions'[id]
               IN  /\ fresh \notin DOMAIN conversationHistory
                   /\ conversationHistory'[fresh] =
                        << [ role |-> "model", text |-> SYSTEM_PROMPT ] >>
                   /\ conversationHistory'[old] = conversationHistory[old]
                   /\ \A other \in DOMAIN conversationSessions' :
                         conversationSessions'[other] # old
                   /\ sessionTimestamps'[id] = now
                   /\ \E r \in inflight' \ inflight :
                         /\ r.sessionId = id
                         /\ r.client = fresh
                         /\ r.context =
                              << [ role |-> "model", text |-> SYSTEM_PROMPT ],
                                 [ role |-> "user", text |-> body.message.value ] >>
      /\ \A id \in DOMAIN conversationSessions' :
           \/ conversationSessions'[id] \notin DOMAIN conversationHistory
           \/ /\ id \in DOMAIN conversationSessions
              /\ conversationSessions'[id] = conversationSessions[id]
    ]_vars

\* Session s1 had an exchange, stayed idle past the timeout and sent a
\* request whose call ran the scan: s1 is registered to a second
\* conversation, the request's context has two messages and the first
\* conversation still holds the exchange.
C28_Witness ==
  /\ scanned
  /\ now = SESSION_TIMEOUT + 1
  /\ Len(conversationHistory) = 2
  /\ DOMAIN conversationSessions = { "s1" }
  /\ conversationSessions["s1"] = 2
  /\ Len(conversationHistory[1]) = 3
  /\ \E r \in inflight :
        r.sessionId = "s1" /\ r.client = 2 /\ Len(r.context) = 2

\* C29: a POST whose message is missing, empty or not a string is answered
\* 400, and a POST with a message that passes this test made while the API
\* key is not configured is answered 500; neither changes a map or a
\* history, runs the scan or starts a model call.
C29_RejectedPostHasNoEffect ==
  [][ \A body \in PostBodies, scan \in BOOLEAN, generated \in GeneratedIds :
        ( /\ body.parses
          /\ ~Accepted(body)
          /\ POST(body, scan, generated) ) =>
        /\ response'.handler = "POST"
        /\ response'.status =
             (IF body.message.type = "string" /\ body.message.value # ""
              THEN 500 ELSE 400)
        /\ conversationSessions' = conversationSessions
        /\ sessionTimestamps' = sessionTimestamps
        /\ conversationHistory' = conversationHistory
        /\ inflight' = inflight
        /\ requests' = requests
        /\ ~scanned'
    ]_vars

\* Session s1 is registered and idle past the timeout, and a POST without a
\* valid message has just been answered 400: s1 keeps its timestamp and its
\* conversation.
C29_Witness ==
  /\ apiKeyConfigured
  /\ response.handler = "POST"
  /\ response.status = 400
  /\ "s1" \in DOMAIN conversationSessions
  /\ sessionTimestamps["s1"] = 0
  /\ now > SESSION_TIMEOUT
  /\ Len(conversationHistory[conversationSessions["s1"]]) = 3
  /\ inflight = {}

(***************************************************************************)
(* The context of a request, checked under SpecConversation.               *)
(***************************************************************************)

\* C30: the context a request sends to the model is the stored history
\* followed by the request's user message: it starts with the system
\* instruction, ends with that user message and has at most 12 messages, and
\* the step that builds it changes no history that existed.
C30_ContextIsHistoryThenMessage ==
  [][ \A r \in inflight' \ inflight :
        LET stored == conversationHistory'[r.client]
            last   == [ role |-> "user", text |-> r.message ]
        IN  /\ r.context = stored \o << last >>
            /\ r.context[1] = [ role |-> "model", text |-> SYSTEM_PROMPT ]
            /\ r.context[Len(r.context)] = last
            /\ Len(r.context) <= 2 * 5 + 2
            /\ \A c \in DOMAIN conversationHistory :
                  conversationHistory'[c] = conversationHistory[c]
    ]_vars

\* The seventh request was sent on a history of eleven messages that starts,
\* after the system instruction, with the second request's message.
C30_Witness ==
  \E r \in inflight :
     /\ r.message = "m7"
     /\ Len(r.context) = 12
     /\ r.context[2] = [ role |-> "user", text |-> "m2" ]
     /\ Len(conversationHistory[r.client]) = 11

====
